---- MODULE Spec2Model ----
(***************************************************************************)
(* AuthenticRequestMiddleware (falcon_signed_requests/middleware.py): the  *)
(* per-request authentication of a signed POST, with the Redis nonce store *)
(* that prevents replay.                                                   *)
(*                                                                         *)
(* Strings are sequences of tokens.  A token stands for a run of           *)
(* characters: "u1" is the 36 characters of a version-1 UUID, "{" is an    *)
(* opening brace, "x" and "y" are other printable text.  Python's None is  *)
(* the one-token sequence <<"None">>, which is no string over the tokens.  *)
(* The interpreter is Python 3 (tests/conf.py uses f-strings): a header is *)
(* a str, a request body is bytes.                                         *)
(***************************************************************************)
EXTENDS Integers, Sequences, FiniteSets, TLC

\* ------------------------------------------------------------------ bounds

\* Workers of the concurrent server (SpecConc); Spec runs worker 1 alone.
NumProcs == 2

\* The clock runs from 0 to MaxTime seconds.
MaxTime == 6

\* The configured "expiry", scaled down from the default of 300 seconds.
ExpirySeconds == 2

\* ------------------------------------------------------------------ values

None == <<"None">>

\* An attribute or context key that was never assigned.
Unset == <<"unset">>

\* A str, bytes or None value with its Python type.
Str(text) == [type |-> "str", text |-> text]

Bytes(text) == [type |-> "bytes", text |-> text]

NoneValue == [type |-> "NoneType", text |-> None]

\* The result of a call: the exception it raised ("none": it returned) and
\* the value it returned.
Return(val) == [exc |-> "none", val |-> val]

Raise(exc) == [exc |-> exc, val |-> FALSE]

\* ---------------------------------------------------------- configuration

SecretKey == <<"SecretKey1234">>

\* "nonce_prefix": the default and another one.
NoncePrefixes == {<<"nonce">>, <<"seen">>}

\* The config dictionaries and stores the middleware is constructed with.
\* The store may be absent (redis_store=None) only when no UUID is required.
\* The prefix is read only when the UUID is required, so it is varied only
\* there, with the default hash.
Configs ==
    { c \in [secret : {SecretKey, None},
             expiry : {ExpirySeconds},
             digest : {"base64", "hex"},
             hash : {"sha256", "sha1"},
             nonce_prefix : NoncePrefixes,
             is_uuid_required : BOOLEAN,
             header_name : {"auth"},
             redis : {"Redis", "None"}] :
        /\ c.is_uuid_required => c.redis = "Redis"
        /\ c.nonce_prefix # <<"nonce">> =>
              (c.is_uuid_required /\ c.hash = "sha256") }

\* ------------------------------------------------------------------ inputs

\* x-{header}-uuid: absent, a version-1 UUID, the same UUID followed by a
\* brace (uuid.UUID strips braces), and text that is no UUID.
RequestIds == {None, <<"u1">>, <<"u1", "{">>, <<"zz">>}

\* Request bodies: a JSON document, its tail without the opening brace, and
\* other non-JSON data.
Bodies == {<<"{", "x">>, <<"x">>, <<"y">>}

Methods == {"POST", "GET"}

\* Content-Type: a media type the application has a handler for (JSON, the
\* default) and one it has none for.
ContentTypes == {"application/json", "text/plain"}

\* hmac.new(key, msg, digestmod).digest(): HMAC is taken to be free of
\* collisions, so a digest is its three inputs.
HmacDigest(key, msg, digestmod) == <<digestmod>> \o key \o <<"|">> \o msg

\* base64.b64encode(d): bytes in Python 3.
B64Encode(d) == Bytes(<<"base64">> \o d)

\* HMAC.hexdigest(): a str.
HexDigest(d) == Str(<<"hex">> \o d)

\* tests/conf.py get_authentic_request: the message the client signs, the
\* request id followed by the body when it sends a request id.
ClientMessage(request_id, body) ==
    IF request_id # None THEN request_id \o body ELSE body

\* tests/conf.py get_authentic_request: the client's signature header for
\* msg, always a str (the Base64 digest is decoded to text).
ClientSignature(secret, msg, hash, encoding) ==
    IF encoding = "base64"
    THEN Str(B64Encode(HmacDigest(secret, msg, hash)).text)
    ELSE HexDigest(HmacDigest(secret, msg, hash))

\* The (request id, body) pairs the holder of the secret has signed.
SignedPairs ==
    { <<(<<"u1">>), (<<"{", "x">>)>>, <<None, (<<"{", "x">>)>>,
      <<None, (<<"x">>)>>, <<(<<"zz">>), (<<"y">>)>> }

\* ASCII text that is no digest, and text with a non-ASCII character.
JunkSignature == Str(<<"junk">>)

NonAsciiSignature == Str(<<"non-ascii">>)

\* tests/conf.py get_authentic_request with sig_prefix="sha1=", as the
\* GitHub-style test sends it for a body alone.
PrefixedSignature(c) ==
    Str(<<"sha1=">> \o ClientSignature(SecretKey, <<"{", "x">>, c.hash, c.digest).text)

\* x-{header}-signature values under configuration c.
Signatures(c) ==
    {NoneValue, JunkSignature, NonAsciiSignature, PrefixedSignature(c)}
    \cup { ClientSignature(SecretKey, ClientMessage(sp[1], sp[2]), c.hash, c.digest) :
              sp \in SignedPairs }

Requests(c) ==
    [method : Methods, signature : Signatures(c), request_id : RequestIds,
     body : Bodies, content_type : ContentTypes]

\* ------------------------------------------------------- library functions

RECURSIVE StripLeft(_)
StripLeft(s) ==
    IF s # <<>> /\ Head(s) = "{" THEN StripLeft(Tail(s)) ELSE s

RECURSIVE StripRight(_)
StripRight(s) ==
    IF s # <<>> /\ s[Len(s)] = "{" THEN StripRight(SubSeq(s, 1, Len(s) - 1)) ELSE s

\* Seconds since the epoch encoded in a version-1 UUID's time fields.
UuidTimestamp(core) == IF core = "u1" THEN ExpirySeconds + 1 ELSE 0

\* TimeUUID(request_id).get_timestamp(): uuid.UUID strips braces from both
\* ends of the text and raises ValueError unless a UUID's digits remain.
TimeUUIDTimestamp(request_id) ==
    IF request_id = None THEN Raise("TypeError")
    ELSE LET hex == StripRight(StripLeft(request_id))
         IN IF hex = <<"u1">>
            THEN Return(UuidTimestamp(hex[1]))
            ELSE Raise("ValueError: badly formed hexadecimal UUID string")

IsAscii(v) == \A i \in 1..Len(v.text) : v.text[i] # "non-ascii"

\* hmac.compare_digest(a, b): both str (ASCII only) or both bytes, else
\* TypeError; the value is equality.
compare_digest(a, b) ==
    IF a.type = "NoneType" \/ b.type = "NoneType" \/ a.type # b.type
    THEN Raise("TypeError")
    ELSE IF a.type = "str" /\ ~(IsAscii(a) /\ IsAscii(b))
    THEN Raise("TypeError")
    ELSE Return(a.text = b.text)

\* handler.deserialize(BytesIO(body), ...): JSON media parses when the body
\* is a JSON document, and raises otherwise.
Deserializable(body) == body # <<>> /\ Head(body) = "{"

\* req.options.media_handlers.find_by_media_type(content_type, default):
\* falcon raises HTTPUnsupportedMediaType when no handler matches.
HasMediaHandler(content_type) == content_type = "application/json"

\* str(uuid1()): a UUID the middleware generates itself.
GeneratedUuid == <<"generated-uuid1">>

\* ------------------------------------------------------------- middleware

\* _get_redis_key
get_redis_key(c, request_id) == c.nonce_prefix \o <<".">> \o request_id

\* The signed payload of _has_valid_signature: request_id.encode("utf-8") +
\* body raises AttributeError when request_id is None.
Payload(c, body, request_id) ==
    IF c.is_uuid_required
    THEN IF request_id = None THEN Raise("AttributeError")
         ELSE Return(request_id \o body)
    ELSE Return(body)

\* The signature the middleware generates for a payload.
generated_signature(c, payload) ==
    LET digestmod == IF c.hash = "sha256" THEN "sha256" ELSE "sha1"
        d == HmacDigest(c.secret, payload, digestmod)
    IN IF c.digest = "base64" THEN B64Encode(d) ELSE HexDigest(d)

\* A check that would pass every signature, which _has_valid_signature does
\* not (C18).
any_signature_valid(c, body, request_id, signature) == Return(TRUE)

\* _has_valid_signature
has_valid_signature(c, body, request_id, signature) ==
    LET payload == Payload(c, body, request_id)
    IN IF payload.exc # "none" THEN Raise(payload.exc)
       ELSE IF c.secret = None THEN Raise("ValueError: No secret configured")
       ELSE compare_digest(generated_signature(c, payload.val), signature)

\* has_valid_timestamp of _has_valid_request_id
has_valid_timestamp(c, time, timestamp) == time - timestamp < c.expiry

\* A time to live of the expiry itself, which the nonce's is not (C14).
SingleExpiry(c) == c.expiry

\* The "ex" argument of redis.set in _set_id_as_used
NonceTtl(c) == c.expiry * 2

\* ------------------------------------------------------------------ state

Procs == 1..NumProcs

VARIABLES
    config,   \* the middleware's config dictionary and store (fixed)
    now,      \* time()
    store,    \* the Redis nonce store: entries [key, value, expires]
    proc,     \* per worker: the request it handles and where it stands
    history   \* the answered requests that were authenticated with a UUID:
              \* their identifier, body and signature, and their time

vars == <<config, now, store, proc, history>>

Py(b) == IF b THEN "True" ELSE "False"

NoRequest ==
    [method |-> "", signature |-> NoneValue, request_id |-> None, body |-> <<>>,
     content_type |-> ""]

\* A worker before it has received a request.  Besides the handler's locals
\* and the request's attributes and context, a worker records how often the
\* request called the store (gets, sets) and which workers were in the
\* handler when the request arrived (peers).
IdleProc ==
    [pc |-> "idle", req |-> NoRequest,
     body_read |-> FALSE, time_read |-> -1, has_valid_timestamp |-> FALSE,
     is_authenticated |-> FALSE, outcome |-> "none",
     ctx_uuid |-> Unset, ctx_authenticated |-> "unset",
     is_authentic |-> "unset", req_body |-> Unset, media |-> "unset",
     gets |-> 0, sets |-> 0, peers |-> {}]

InHandler(q) == proc[q].pc \in {"get", "set"}

\* redis.get(key)
RedisValue(key) ==
    IF \E e \in store : e.key = key
    THEN (CHOOSE e \in store : e.key = key).value
    ELSE None

\* _has_unused_id (the store is present)
has_unused_id(c, request_id) == RedisValue(get_redis_key(c, request_id)) = None

\* An exception leaves process_resource: nothing further is assigned.
Raised(rec, exc) == [rec EXCEPT !.pc = "done", !.outcome = exc]

\* "Parse any required media" with deserialize's exception let through,
\* which the except clause does not do (C16).
parse_media_unguarded(content_type, body) ==
    IF ~HasMediaHandler(content_type) THEN Raise("HTTPUnsupportedMediaType")
    ELSE IF Deserializable(body) THEN Return("parsed")
    ELSE Raise("HTTPBadRequest")

\* "Parse any required media" (lines 195-205): the handler lookup raises
\* when there is no handler, an exception of deserialize is passed over and
\* leaves req._media as it was.
parse_media(content_type, body) ==
    IF ~HasMediaHandler(content_type) THEN Raise("HTTPUnsupportedMediaType")
    ELSE IF Deserializable(body) THEN Return("parsed")
    ELSE Return("unset")

\* process_resource from "Ensure every request has a uuid" to its end
\* (lines 182-209), with the verdict is_authenticated.
Finish(c, rec, is_authenticated) ==
    LET request_id == IF rec.req.request_id = None /\ c.is_uuid_required
                      THEN GeneratedUuid ELSE rec.req.request_id
        media == parse_media(rec.req.content_type, rec.req.body)
    IN [rec EXCEPT
          !.pc = "done",
          !.is_authenticated = is_authenticated,
          !.ctx_uuid = request_id,
          !.ctx_authenticated = Py(is_authenticated),
          !.is_authentic = Py(is_authenticated),
          !.req_body = IF is_authenticated THEN rec.req.body ELSE Unset,
          !.media = IF is_authenticated /\ media.exc = "none"
                    THEN media.val ELSE "unset",
          !.outcome = IF ~is_authenticated THEN "HTTPForbidden"
                      ELSE IF media.exc # "none" THEN media.exc
                      ELSE "returned"]

\* A guard that would let no request return early, which line 156 does for
\* the signed requests that are no POST (C20).
returns_never(r) == FALSE

\* The guard of line 156, "Only required to process POST requests".
returns_early(r) == r.method # "POST" /\ r.signature # NoneValue

\* process_resource from its start to the first call of the store (lines
\* 151-175, into _has_valid_request_id up to the time() read).
Received(c, p, r) ==
    LET rec0 == [IdleProc EXCEPT
                   !.req = r,
                   !.peers = {q \in Procs \ {p} : InHandler(q)}]
    IN IF returns_early(r)
       THEN [rec0 EXCEPT !.pc = "done", !.outcome = "returned"]
       ELSE
       LET rec1 == [rec0 EXCEPT !.body_read = TRUE]
           has_matching_signature ==
               has_valid_signature(c, r.body, r.request_id, r.signature)
       IN IF has_matching_signature.exc # "none"
          THEN Raised(rec1, has_matching_signature.exc)
          ELSE IF ~has_matching_signature.val
          THEN Finish(c, rec1, FALSE)
          ELSE IF ~c.is_uuid_required
          THEN Finish(c, rec1, TRUE)
          ELSE
          LET timestamp == TimeUUIDTimestamp(r.request_id)
          IN IF timestamp.exc # "none"
             THEN Raised(rec1, timestamp.exc)
             ELSE [rec1 EXCEPT
                     !.pc = "get", !.time_read = now,
                     !.has_valid_timestamp =
                         has_valid_timestamp(c, now, timestamp.val)]

\* ---------------------------------------------------------------- actions

Init ==
    /\ config \in Configs
    /\ now = 0
    /\ store = {}
    /\ proc = [p \in Procs |-> IdleProc]
    /\ history = {}

\* A worker receives request r and runs process_resource up to its first
\* call of the store, or to its end when it makes none.
Begin(p, r) ==
    /\ proc[p].pc = "idle"
    /\ proc' = [proc EXCEPT ![p] = Received(config, p, r)]
    /\ UNCHANGED <<config, now, store, history>>

\* _has_unused_id's redis.get, the rest of _has_valid_request_id, and, for
\* a request that is not authenticated, the rest of process_resource.
RedisGet(p) ==
    /\ proc[p].pc = "get"
    /\ IF config.redis = "None"
       THEN proc' = [proc EXCEPT ![p] = Raised(proc[p], "AssertionError")]
       ELSE LET rec == [proc[p] EXCEPT !.gets = @ + 1]
                is_unused == has_unused_id(config, rec.req.request_id)
                is_authenticated == rec.has_valid_timestamp /\ is_unused
            IN proc' = [proc EXCEPT ![p] =
                          IF is_authenticated /\ config.is_uuid_required
                          THEN [rec EXCEPT !.pc = "set",
                                           !.is_authenticated = TRUE]
                          ELSE Finish(config, rec, is_authenticated)]
    /\ UNCHANGED <<config, now, store, history>>

\* What _set_id_as_used does not do: a write that replaces the whole store,
\* deleting the entries of the other identifiers (C13).
RedisSetFlushing(p) ==
    /\ proc[p].pc = "set"
    /\ LET request_id == proc[p].req.request_id
       IN /\ store' = {[key |-> get_redis_key(config, request_id),
                        value |-> request_id,
                        expires |-> now + NonceTtl(config)]}
          /\ proc' = [proc EXCEPT ![p] =
                        Finish(config, [proc[p] EXCEPT !.sets = @ + 1], TRUE)]
    /\ UNCHANGED <<config, now, history>>

\* _set_id_as_used's redis.set and the rest of process_resource.
RedisSet(p) ==
    /\ proc[p].pc = "set"
    /\ IF config.redis = "None"
       THEN /\ proc' = [proc EXCEPT ![p] = Raised(proc[p], "AssertionError")]
            /\ UNCHANGED store
       ELSE LET request_id == proc[p].req.request_id
                key == get_redis_key(config, request_id)
            IN /\ store' = {e \in store : e.key # key}
                           \cup {[key |-> key, value |-> request_id,
                                  expires |-> now + NonceTtl(config)]}
               /\ proc' = [proc EXCEPT ![p] =
                             Finish(config, [proc[p] EXCEPT !.sets = @ + 1], TRUE)]
    /\ UNCHANGED <<config, now, history>>

\* The response leaves (the resource's, or the error's), and the worker is
\* free again.  An authenticated request with a UUID enters the history,
\* in place of an earlier one with the same UUID.
Respond(p) ==
    /\ proc[p].pc = "done"
    /\ proc' = [proc EXCEPT ![p] = IdleProc]
    /\ history' =
         IF proc[p].is_authenticated /\ config.is_uuid_required
         THEN {h \in history : h.request_id # proc[p].req.request_id}
              \cup {[request_id |-> proc[p].req.request_id,
                     body |-> proc[p].req.body,
                     signature |-> proc[p].req.signature,
                     time |-> proc[p].time_read]}
         ELSE history
    /\ UNCHANGED <<config, now, store>>

\* A second passes; Redis drops the entries whose time to live has elapsed.
\* A request is handled within one second of the clock.
Tick ==
    /\ now < MaxTime
    /\ \A p \in Procs : proc[p].pc = "idle"
    /\ now' = now + 1
    /\ store' = {e \in store : e.expires > now + 1}
    /\ UNCHANGED <<config, proc, history>>

\* A single worker: requests are processed one after the other.
Next ==
    \/ \E r \in Requests(config) : Begin(1, r)
    \/ RedisGet(1)
    \/ RedisSet(1)
    \/ Respond(1)
    \/ Tick

Spec == Init /\ [][Next]_vars

\* The requests of the concurrent runs: POSTs that carry a signature and an
\* identifier.
RaceRequests(c) ==
    [method : {"POST"}, content_type : {"application/json"},
     signature : {ClientSignature(SecretKey, <<"u1", "{", "x">>, c.hash, c.digest)},
     request_id : {<<"u1">>, <<"u1", "{">>},
     body : {<<"{", "x">>, <<"x">>}]

\* ----------------------------------------------------------- the response

\* The HTTP status of the response: an HTTPForbidden is a 403, an
\* HTTPUnsupportedMediaType a 415, any other exception leaves the
\* application unhandled (a server error).
Status(rec) ==
    IF rec.outcome = "returned" THEN "200"
    ELSE IF rec.outcome = "HTTPForbidden" THEN "403"
    ELSE IF rec.outcome = "HTTPUnsupportedMediaType" THEN "415"
    ELSE "500"

\* tests/conf.py TestResource: the body the resource responds with when
\* process_resource returned.
ResourceBody(rec) ==
    IF rec.req.method = "POST"
    THEN IF rec.is_authentic = "True"
         THEN IF rec.media = "parsed" THEN "Authentic" ELSE "Fail"
         ELSE IF rec.is_authentic = "False" THEN "Inauthentic"
         ELSE "AttributeError"
    ELSE "Success"

\* NumProcs workers share the store; their store calls interleave.
NextConc ==
    \/ \E p \in Procs : \E r \in RaceRequests(config) : Begin(p, r)
    \/ \E p \in Procs : RedisGet(p)
    \/ \E p \in Procs : RedisSet(p)
    \/ \E p \in Procs : Respond(p)
    \/ Tick

\* The concurrent runs are those of a middleware that requires the UUID.
InitConc == Init /\ config.is_uuid_required

SpecConc == InitConc /\ [][NextConc]_vars

\* ------------------------------------------------------------ properties

Done(p) == proc[p].pc = "done"

SecretSet == config.secret # None

\* The signature header is the reference construction's for the request:
\* over the request id followed by the body when the UUID is required, over
\* the body alone otherwise.
CorrectlySigned(r) ==
    /\ config.is_uuid_required => r.request_id # None
    /\ r.signature =
         ClientSignature(SecretKey,
                         IF config.is_uuid_required
                         THEN r.request_id \o r.body ELSE r.body,
                         config.hash, config.digest)

\* The request is one the holder of the secret signed: its body, its
\* request id (when required) and its signature are those of a signed pair.
Authentic(r) ==
    \E sp \in SignedPairs :
       /\ r.signature = ClientSignature(SecretKey, ClientMessage(sp[1], sp[2]),
                                        config.hash, config.digest)
       /\ r.body = sp[2]
       /\ IF config.is_uuid_required
          THEN sp[1] # None /\ r.request_id = sp[1]
          ELSE sp[1] = None

WellFormed(request_id) ==
    request_id # None /\ TimeUUIDTimestamp(request_id).exc = "none"

Age(request_id) == now - TimeUUIDTimestamp(request_id).val

\* No answered request was authenticated with this identifier.
NeverUsed(request_id) ==
    \A h \in history : h.request_id # request_id

Authenticated(p) ==
    proc[p].is_authenticated /\ proc[p].outcome = "returned"

Rejected(p) ==
    ~proc[p].is_authenticated /\ proc[p].outcome = "HTTPForbidden"

\* C1: with a secret configured, a POST whose signature header is the
\* reference construction's encoded HMAC, with a fresh identifier that was
\* never used (when the identifier is required), is authenticated and
\* process_resource returns without raising.
C1_ReferenceSignatureAuthenticates ==
    \A p \in Procs :
       ( /\ Done(p) /\ SecretSet
         /\ proc[p].req.method = "POST"
         /\ CorrectlySigned(proc[p].req)
         /\ config.is_uuid_required =>
              /\ WellFormed(proc[p].req.request_id)
              /\ Age(proc[p].req.request_id) < config.expiry
              /\ NeverUsed(proc[p].req.request_id) )
       => Authenticated(p)

\* C2: with the UUID required, of a correctly signed request processed
\* twice within the expiry window the first is authenticated and the second
\* is rejected; and no request is authenticated while its identifier has a
\* live entry in the store (one written less than the time to live ago).
C2_ReplayRejected ==
    \A p \in Procs :
       ( /\ Done(p) /\ SecretSet /\ config.is_uuid_required
         /\ proc[p].req.method = "POST"
         /\ CorrectlySigned(proc[p].req)
         /\ WellFormed(proc[p].req.request_id) )
       =>
       /\ ( /\ NeverUsed(proc[p].req.request_id)
            /\ Age(proc[p].req.request_id) < config.expiry )
          => Authenticated(p)
       /\ (\E h \in history :
              /\ h.request_id = proc[p].req.request_id
              /\ h.body = proc[p].req.body
              /\ h.signature = proc[p].req.signature
              /\ now - h.time < config.expiry)
          => Rejected(p)
       /\ (\E h \in history :
              /\ h.request_id = proc[p].req.request_id
              /\ now - h.time < NonceTtl(config))
          => ~proc[p].is_authenticated

\* C3: with the UUID required, of the requests that carry the same
\* identifier and are handled concurrently at most one is authenticated,
\* and no two of them have both found the identifier unused.
C3_AtMostOneConcurrent ==
    \A p, q \in Procs :
       (p # q /\ proc[p].req.request_id = proc[q].req.request_id)
       =>
       /\ ~(proc[p].pc = "set" /\ proc[q].pc = "set")
       /\ ~( /\ Done(p) /\ Authenticated(p)
             /\ Done(q) /\ Authenticated(q)
             /\ (q \in proc[p].peers \/ p \in proc[q].peers) )

\* C4: a POST that carries a signature (and an identifier, when required)
\* and whose body, identifier or signature is not that of a signed request
\* is rejected: not authenticated, HTTPForbidden.
C4_TamperedRejected ==
    \A p \in Procs :
       ( /\ Done(p) /\ SecretSet
         /\ proc[p].req.method = "POST"
         /\ proc[p].req.signature # NoneValue
         /\ config.is_uuid_required => proc[p].req.request_id # None
         /\ ~Authentic(proc[p].req) )
       => Rejected(p)

\* C5: a correctly signed, never used identifier is rejected when its age
\* is expiry seconds or more, and accepted when its age is less.
C5_StrictFreshness ==
    \A p \in Procs :
       ( /\ Done(p) /\ SecretSet /\ config.is_uuid_required
         /\ proc[p].req.method = "POST"
         /\ CorrectlySigned(proc[p].req)
         /\ WellFormed(proc[p].req.request_id)
         /\ NeverUsed(proc[p].req.request_id) )
       =>
       IF Age(proc[p].req.request_id) < config.expiry
       THEN Authenticated(p)
       ELSE Rejected(p)

\* C6: when the UUID is not required no request calls the store's get or
\* set, and a POST with a valid signature of its body alone is
\* authenticated, with or without an identifier header.
C6_NoStoreWithoutUuid ==
    ~config.is_uuid_required =>
       /\ store = {}
       /\ \A p \in Procs :
            /\ proc[p].gets = 0 /\ proc[p].sets = 0
            /\ ( /\ Done(p) /\ SecretSet
                 /\ proc[p].req.method = "POST"
                 /\ CorrectlySigned(proc[p].req) )
               => Authenticated(p)

\* C7: a POST without a signature header is not an error: the request is
\* marked not authentic, the resource responds (200, "Inauthentic"), and
\* the body is still there for the caller.
C7_MissingSignatureIsData ==
    \A p \in Procs :
       ( /\ Done(p) /\ SecretSet
         /\ proc[p].req.method = "POST"
         /\ proc[p].req.signature = NoneValue )
       =>
       /\ proc[p].outcome = "returned"
       /\ proc[p].is_authentic = "False"
       /\ Status(proc[p]) = "200"
       /\ ResourceBody(proc[p]) = "Inauthentic"
       /\ (proc[p].req_body = proc[p].req.body \/ ~proc[p].body_read)

\* C8: a GET without a signature header passes through unauthenticated:
\* the body stream is not read, the store is not called, nothing is raised.
C8_GetPassthrough ==
    \A p \in Procs :
       ( /\ Done(p)
         /\ proc[p].req.method = "GET"
         /\ proc[p].req.signature = NoneValue )
       =>
       /\ proc[p].outcome = "returned"
       /\ ~proc[p].is_authenticated
       /\ ~proc[p].body_read
       /\ proc[p].gets = 0 /\ proc[p].sets = 0

\* C9: with the UUID required, a POST with a signature that is correct for
\* its body alone and with no identifier header ends in HTTPForbidden (403)
\* and writes no store entry.
C9_MissingIdForbidden ==
    \A p \in Procs :
       ( /\ Done(p) /\ SecretSet /\ config.is_uuid_required
         /\ proc[p].req.method = "POST"
         /\ proc[p].req.request_id = None
         /\ proc[p].req.signature =
              ClientSignature(SecretKey, ClientMessage(None, proc[p].req.body),
                              config.hash, config.digest) )
       =>
       /\ Rejected(p)
       /\ Status(proc[p]) = "403"
       /\ proc[p].sets = 0

\* C10: with a secret configured, a POST that carries a signature (and an
\* identifier, when required) and fails authentication - bad signature,
\* expired, reused or malformed identifier - ends in HTTPForbidden, never
\* in another exception.
C10_FailuresAreVerdicts ==
    \A p \in Procs :
       ( /\ Done(p) /\ SecretSet
         /\ proc[p].req.method = "POST"
         /\ proc[p].req.signature # NoneValue
         /\ config.is_uuid_required => proc[p].req.request_id # None )
       => (Authenticated(p) \/ Rejected(p))

\* C11: when no secret is configured, every request whose authentication is
\* attempted (it passes the method guard) ends in ValueError "No secret
\* configured": it is not authenticated, not Forbidden, no other error comes
\* first, and the store is neither read nor written.
C11_NoSecretIsConfigError ==
    ~SecretSet =>
       /\ store = {}
       /\ \A p \in Procs :
            (Done(p) /\ proc[p].body_read) =>
               /\ proc[p].outcome = "ValueError: No secret configured"
               /\ ~proc[p].is_authenticated
               /\ proc[p].gets = 0 /\ proc[p].sets = 0

\* C12: with the UUID required, a request has written the store when it is
\* answered if and only if it was authenticated, it has written once, the
\* write precedes the verdict's assignment to the request, and a request
\* that ends in HTTPForbidden or in an error has written nothing.
C12_WriteIffAuthenticated ==
    config.is_uuid_required =>
       \A p \in Procs :
          /\ proc[p].sets <= 1
          /\ proc[p].ctx_authenticated = "True" => proc[p].sets = 1
          /\ Done(p) =>
               /\ proc[p].sets = 1 <=> proc[p].is_authenticated
               /\ proc[p].outcome # "returned" => proc[p].sets = 0

\* C13: no step takes an entry out of the store before its time to live has
\* elapsed: an entry of the store is still there after the step, with the
\* same key and value and a time to live that is not shorter, unless the
\* clock has reached its expiry.  A used identifier does not become unused
\* again before then.
C13_NoEarlyDelete ==
    [][\A e \in store :
          \/ now' >= e.expires
          \/ \E f \in store' :
                f.key = e.key /\ f.value = e.value /\ f.expires >= e.expires]_vars

\* C13: an identifier was marked used earlier, another was marked used
\* since, and the first one's entry is still in the store.
C13_Witness ==
    \E e, f \in store :
       /\ e.key # f.key
       /\ e.expires < f.expires
       /\ now < e.expires

\* C14: every entry of the store has the key nonce_prefix + "." + identifier
\* and the identifier as its value, the unused-check of that identifier
\* finds it, and an entry is written with a time to live of exactly twice
\* the expiry.
C14_EntryShape ==
    /\ [](\A e \in store :
            /\ e.value \in RequestIds \ {None}
            /\ e.key = config.nonce_prefix \o <<".">> \o e.value
            /\ ~has_unused_id(config, e.value)
            /\ e.expires <= now + 2 * config.expiry)
    /\ [][\A e \in store' :
             e \notin store => e.expires = now + 2 * config.expiry]_vars

\* C14: an entry was just written under the prefix that is not the default.
C14_Witness ==
    /\ config.nonce_prefix = <<"seen">>
    /\ \E p \in Procs :
          /\ Done(p) /\ proc[p].sets = 1
          /\ \E e \in store :
                /\ e.value = proc[p].req.request_id
                /\ e.expires = now + 2 * config.expiry

\* C15: with the UUID required (and a secret configured), a request that is
\* processed without an identifier header ends, returned or HTTPForbidden,
\* with a generated identifier under "{header}-uuid" in its context; that
\* identifier reaches neither the store nor the checks.
C15_GeneratedUuidInContext ==
    \A p \in Procs :
       ( /\ Done(p) /\ SecretSet /\ config.is_uuid_required
         /\ proc[p].body_read
         /\ proc[p].req.request_id = None )
       =>
       /\ proc[p].outcome \in {"returned", "HTTPForbidden"}
       /\ proc[p].ctx_uuid = GeneratedUuid
       /\ proc[p].gets = 0 /\ proc[p].sets = 0
       /\ \A e \in store : e.value # GeneratedUuid

C17_UniformRejection ==
    \A p \in Procs :
       ( /\ Done(p) /\ SecretSet
         /\ proc[p].req.method = "POST"
         /\ proc[p].req.signature # NoneValue
         /\ config.is_uuid_required => WellFormed(proc[p].req.request_id)
         /\ ~proc[p].is_authenticated )
       =>
       /\ proc[p].outcome = "HTTPForbidden"
       /\ Status(proc[p]) = "403"
       /\ proc[p].ctx_authenticated = "False"
       /\ proc[p].req_body = Unset

\* C18: only a request whose signature matches reaches the store: a request
\* that has called redis.get or redis.set carries the signature of its own
\* identifier and body under the configured secret.  A request with another
\* signature reads, creates and refreshes no entry.
C18_SignatureBeforeStore ==
    \A p \in Procs :
       (proc[p].pc \in {"get", "set"} \/ proc[p].gets > 0 \/ proc[p].sets > 0)
       =>
       /\ SecretSet /\ config.is_uuid_required
       /\ CorrectlySigned(proc[p].req)

\* C18: a request with a signature that does not match, for an identifier
\* that has a live entry in the store, was rejected without a store call.
C18_Witness ==
    \E p \in Procs :
       /\ Done(p)
       /\ proc[p].req.signature = JunkSignature
       /\ proc[p].req.request_id # None
       /\ ~has_unused_id(config, proc[p].req.request_id)
       /\ proc[p].outcome = "HTTPForbidden"
       /\ proc[p].gets = 0 /\ proc[p].sets = 0

\* C19: in a sequential run, an identifier that an answered request was
\* authenticated with is never authenticated again, however long ago that
\* was and whether or not its entry is still in the store.
C19_SingleUseForAllTime ==
    \A p \in Procs :
       ( /\ Done(p) /\ config.is_uuid_required
         /\ ~NeverUsed(proc[p].req.request_id) )
       => ~proc[p].is_authenticated

\* C20: a request that is not a POST and carries a signature header,
\* whatever its value, is returned from process_resource at once: the body
\* is not read, the signature is not checked (nothing is raised, with or
\* without a secret), the store is not called, and neither verdict nor
\* identifier is written to the request or its context.
C20_SignedNonPostReturns ==
    \A p \in Procs :
       ( /\ proc[p].pc # "idle"
         /\ proc[p].req.method # "POST"
         /\ proc[p].req.signature # NoneValue )
       =>
       /\ Done(p)
       /\ proc[p].outcome = "returned"
       /\ ~proc[p].body_read
       /\ proc[p].gets = 0 /\ proc[p].sets = 0
       /\ proc[p].ctx_uuid = Unset
       /\ proc[p].ctx_authenticated = "unset"
       /\ proc[p].is_authentic = "unset"
       /\ proc[p].req_body = Unset
       /\ ~proc[p].is_authenticated

\* C20: a GET that carries the correct signature of its identifier and body
\* has been returned, with no secret configured or with one.
C20_Witness ==
    \E p \in Procs :
       /\ Done(p)
       /\ proc[p].req.method = "GET"
       /\ proc[p].req.request_id = <<"u1">>
       /\ CorrectlySigned(proc[p].req)
       /\ proc[p].outcome = "returned"
       /\ ResourceBody(proc[p]) = "Success"

====
